---- MODULE Spec2Model ----
(***************************************************************************)
(* envmcp: locate a .env.mcp file, parse it, load it into the process      *)
(* environment and run a command with that environment.                    *)
(*                                                                         *)
(* Text is modelled as sequences of one-character strings, a path as the   *)
(* sequence of its components (an absolute path starts with "/"), so that  *)
(* trimming, splitting, joining and walking to the parent are computed and *)
(* not assumed.  Symbolic links are not modelled: Path.resolve() makes a   *)
(* path absolute and folds its ".." components.                            *)
(***************************************************************************)
EXTENDS Integers, Sequences, FiniteSets, TLC

VARIABLES
    pc,          \* position of the process in the operation under study
    fs,          \* file system: path -> [kind, probe, open, content]
    cwd,         \* os.getcwd()
    home,        \* Path.home()
    environ,     \* os.environ
    inherited,   \* os.environ as it was when the process started
    start_dir,   \* argument of find_env_file
    find_result, \* value returned by find_env_file
    file_path,   \* argument of parse_env_file
    parse_result,\* outcome of parse_env_file
    parsed_args, \* namespace returned by parse_args
    find_called, \* number of calls of find_env_file made by load_env_mcp
    parsed_paths,\* paths handed to parse_env_file by load_env_mcp, in order
    env_vars,    \* mapping returned by parse_env_file inside load_env_mcp
    load_result, \* "unset", or the value returned by load_env_mcp
    launches,    \* calls of subprocess.run, in order
    condition,   \* what happened to the launched command, None before
    exit_code,   \* exit status of the process, NoExit while it runs
    stderr       \* messages written to sys.stderr, in order

vars == <<pc, fs, cwd, home, environ, inherited, start_dir, find_result,
          file_path, parse_result, parsed_args, find_called, parsed_paths,
          env_vars, load_result, launches, condition, exit_code, stderr>>

----------------------------------------------------------------------------
(* Bounds of the model *)

MaxDepth == 2
MaxContentLen == 5
MaxCommandLen == 2
MaxArgs == 1

----------------------------------------------------------------------------
(* Values *)

None == <<"None">>
NoExit == 0 - 1
Range(s) == {s[i] : i \in 1..Len(s)}

RECURSIVE SeqsUpTo(_, _)
SeqsUpTo(S, n) ==
    IF n = 0 THEN {<<>>}
    ELSE LET shorter == SeqsUpTo(S, n - 1)
         IN  shorter \cup {Append(s, x) : s \in {t \in shorter : Len(t) = n - 1}, x \in S}

----------------------------------------------------------------------------
(* Paths: pathlib.Path *)

Root == <<"/">>
SentinelName == ".env.mcp"

IsAbsolute(p) == Len(p) > 0 /\ p[1] = "/"

\* Path.parent: the parent of the root is the root itself
Parent(p) == IF Len(p) <= 1 THEN p ELSE SubSeq(p, 1, Len(p) - 1)

\* Path / name
Join(p, name) == Append(p, name)

RECURSIVE Fold(_, _)
Fold(done, rest) ==
    IF rest = <<>> THEN done
    ELSE IF Head(rest) = ".." THEN Fold(Parent(done), Tail(rest))
    ELSE Fold(Append(done, Head(rest)), Tail(rest))

\* Path(p).resolve(): absolute, ".." folded
Resolve(p) ==
    IF IsAbsolute(p) THEN Fold(Root, Tail(p)) ELSE Fold(cwd, p)

\* the path open() and stat() act on
Located(p) == IF IsAbsolute(p) THEN p ELSE cwd \o p

Absent == [kind |-> "none", probe |-> "ok", open |-> "ok", content |-> <<>>]
Stat(p) == IF Located(p) \in DOMAIN fs THEN fs[Located(p)] ELSE Absent

----------------------------------------------------------------------------
(* core.py: find_env_file *)

ProbeError(p) == [msg |-> "Error checking file", path |-> p]

\* env_file_path.exists() and env_file_path.is_file(): "raise" when the
\* probe fails with an OSError, otherwise whether a regular file is there
Probe(p) ==
    IF Stat(p).probe = "error" THEN "raise"
    ELSE IF Stat(p).kind = "file" THEN "True" ELSE "False"

\* mutant of HomeFallback: exists() alone, is_file() forgotten
HomeFallbackExistsOnly(errs) ==
    LET home_env_file == Join(home, SentinelName)
    IN  IF Stat(home_env_file).probe = "ok" /\ Stat(home_env_file).kind # "none"
        THEN [path |-> home_env_file, errs |-> errs]
        ELSE [path |-> None, errs |-> errs]

\* the special case after the walk: ~/.env.mcp
HomeFallback(errs) ==
    LET home_dir == home
        home_env_file == Join(home_dir, SentinelName)
    IN  IF Probe(home_env_file) = "True"
        THEN [path |-> home_env_file, errs |-> errs]
        ELSE IF Probe(home_env_file) = "raise"
        THEN [path |-> None, errs |-> Append(errs, ProbeError(home_env_file))]
        ELSE [path |-> None, errs |-> errs]

\* the while True loop, from current_dir upwards
RECURSIVE Walk(_, _)
Walk(current_dir, errs) ==
    LET env_file_path == Join(current_dir, SentinelName)
        parent_dir == Parent(current_dir)
        errs2 == IF Probe(env_file_path) = "raise"
                 THEN Append(errs, ProbeError(env_file_path))
                 ELSE errs
    IN  IF Probe(env_file_path) = "True"
        THEN [path |-> env_file_path, errs |-> errs]
        ELSE IF parent_dir = current_dir
        THEN HomeFallback(errs2)
        ELSE Walk(parent_dir, errs2)

\* mutant of find_env_file: the walk moves up before its first probe
find_env_file_parent_first(sd) ==
    LET start == IF sd = None THEN cwd ELSE sd
    IN  Walk(Parent(Resolve(start)), <<>>)

find_env_file(sd) ==
    LET start == IF sd = None THEN cwd ELSE sd
    IN  Walk(Resolve(start), <<>>)

----------------------------------------------------------------------------
(* Text: str.strip, str.splitlines, str.partition *)

Whitespace == {" ", "\t", "\n", "\r", "\f"}
LineBreaks == {"\n", "\r", "\f"}

RECURSIVE LStrip(_)
LStrip(s) ==
    IF s # <<>> /\ Head(s) \in Whitespace THEN LStrip(Tail(s)) ELSE s

RECURSIVE RStrip(_)
RStrip(s) ==
    IF s # <<>> /\ s[Len(s)] \in Whitespace
    THEN RStrip(SubSeq(s, 1, Len(s) - 1))
    ELSE s

\* str.strip()
Strip(s) == RStrip(LStrip(s))

\* str.splitlines(): a trailing line break opens no further line
RECURSIVE SplitFrom(_, _, _)
SplitFrom(rest, cur, acc) ==
    IF rest = <<>> THEN (IF cur = <<>> THEN acc ELSE Append(acc, cur))
    ELSE IF Head(rest) \in LineBreaks
    THEN SplitFrom(Tail(rest), <<>>, Append(acc, cur))
    ELSE SplitFrom(Tail(rest), Append(cur, Head(rest)), acc)

SplitLines(content) == SplitFrom(content, <<>>, <<>>)

StartsWith(s, c) == Len(s) > 0 /\ s[1] = c
EndsWith(s, c) == Len(s) > 0 /\ s[Len(s)] = c

\* str.partition(sep) for a one-character sep that occurs in s
FirstIndex(s, c) == CHOOSE i \in 1..Len(s) : s[i] = c /\ \A j \in 1..(i - 1) : s[j] # c
Before(s, c) == SubSeq(s, 1, FirstIndex(s, c) - 1)
After(s, c) == SubSeq(s, FirstIndex(s, c) + 1, Len(s))

----------------------------------------------------------------------------
(* dict: pairs <<key, value>> in insertion order, keys unique *)

Keys(d) == {d[i][1] : i \in 1..Len(d)}
Get(d, k) == d[CHOOSE i \in 1..Len(d) : d[i][1] = k][2]

\* mutant of DictSet: a key already present keeps its value (setdefault)
DictSetFirst(d, k, v) ==
    IF k \in Keys(d) THEN d ELSE Append(d, <<k, v>>)

\* d[k] = v: a key already present keeps its place
DictSet(d, k, v) ==
    IF k \in Keys(d)
    THEN [i \in 1..Len(d) |-> IF d[i][1] = k THEN <<k, v>> ELSE d[i]]
    ELSE Append(d, <<k, v>>)

----------------------------------------------------------------------------
(* core.py: parse_env_file *)

\* open(file_path, encoding="utf-8") and f.read(): the exception raised, or ""
OpenError(p) ==
    IF Len(p) = 0 THEN "FileNotFoundError"
    ELSE IF Stat(p).probe = "error" THEN "PermissionError"
    ELSE IF Stat(p).kind = "none" THEN "FileNotFoundError"
    ELSE IF Stat(p).kind = "dir" THEN "IsADirectoryError"
    ELSE IF Stat(p).open = "perm" THEN "PermissionError"
    ELSE IF Stat(p).open = "undecodable" THEN "UnicodeDecodeError"
    ELSE ""

InvalidLine(n, line) == [msg |-> "Warning: Invalid line format", line_num |-> n, line |-> line]
EmptyKey(n, line) == [msg |-> "Warning: Empty key", line_num |-> n, line |-> line]

\* mutant of Unquote: the two quotes need not be the same character
UnquoteAnyPair(value) ==
    IF Len(value) >= 2
       /\ value[1] \in {"\"", "'"} /\ value[Len(value)] \in {"\"", "'"}
    THEN SubSeq(value, 2, Len(value) - 1)
    ELSE value

\* the quotes around a value, removed once
Unquote(value) ==
    IF Len(value) >= 2
       /\ \/ StartsWith(value, "\"") /\ EndsWith(value, "\"")
          \/ StartsWith(value, "'") /\ EndsWith(value, "'")
    THEN SubSeq(value, 2, Len(value) - 1)
    ELSE value

\* mutant of ParseLines: a line without "=" ends the loop (break for continue)
RECURSIVE ParseLinesBreak(_, _, _, _)
ParseLinesBreak(lines, line_num, result, warnings) ==
    IF line_num > Len(lines) THEN [result |-> result, warnings |-> warnings]
    ELSE
        LET line == lines[line_num]
            trimmed_line == Strip(line)
        IN  IF trimmed_line = <<>> \/ StartsWith(trimmed_line, "#")
            THEN ParseLinesBreak(lines, line_num + 1, result, warnings)
            ELSE IF "=" \notin Range(trimmed_line)
            THEN [result |-> result,
                  warnings |-> Append(warnings, InvalidLine(line_num, line))]
            ELSE
                LET key == Strip(Before(trimmed_line, "="))
                    value == Strip(After(trimmed_line, "="))
                IN  IF key = <<>>
                    THEN ParseLinesBreak(lines, line_num + 1, result,
                                         Append(warnings, EmptyKey(line_num, line)))
                    ELSE ParseLinesBreak(lines, line_num + 1,
                                         DictSet(result, key, Unquote(value)), warnings)

\* the for loop over enumerate(lines, 1), from line line_num on
RECURSIVE ParseLines(_, _, _, _)
ParseLines(lines, line_num, result, warnings) ==
    IF line_num > Len(lines) THEN [result |-> result, warnings |-> warnings]
    ELSE
        LET line == lines[line_num]
            trimmed_line == Strip(line)
        IN  IF trimmed_line = <<>> \/ StartsWith(trimmed_line, "#")
            THEN ParseLines(lines, line_num + 1, result, warnings)
            ELSE IF "=" \notin Range(trimmed_line)
            THEN ParseLines(lines, line_num + 1, result,
                            Append(warnings, InvalidLine(line_num, line)))
            ELSE
                LET key == Strip(Before(trimmed_line, "="))
                    value == Strip(After(trimmed_line, "="))
                IN  IF key = <<>>
                    THEN ParseLines(lines, line_num + 1, result,
                                    Append(warnings, EmptyKey(line_num, line)))
                    ELSE ParseLines(lines, line_num + 1,
                                    DictSet(result, key, Unquote(value)), warnings)

\* [raised: the exception that leaves the function or "", result, warnings]
parse_env_file(p) ==
    IF OpenError(p) # ""
    THEN [raised |-> OpenError(p), result |-> <<>>, warnings |-> <<>>]
    ELSE LET content == Stat(p).content
             lines == SplitLines(content)
             done == ParseLines(lines, 1, <<>>, <<>>)
         IN  [raised |-> "", result |-> done.result, warnings |-> done.warnings]

----------------------------------------------------------------------------
(* core.py: load_env_mcp *)

Nul == "NUL"

\* os.environ[key] = value raises ValueError on an embedded null byte
PutenvFails(key, value) == Nul \in Range(key) \/ Nul \in Range(value)

\* mutant of Putenv: a variable already set keeps its value (setdefault)
PutenvKeep(env, key, value) ==
    [k \in DOMAIN env \cup {key} |-> IF k \in DOMAIN env THEN env[k] ELSE value]

Putenv(env, key, value) ==
    [k \in DOMAIN env \cup {key} |-> IF k = key THEN value ELSE env[k]]

\* for key, value in env_vars.items(): os.environ[key] = value
RECURSIVE PutAll(_, _, _)
PutAll(items, i, env) ==
    IF i > Len(items) THEN [raised |-> "", env |-> env]
    ELSE IF PutenvFails(items[i][1], items[i][2])
    THEN [raised |-> "ValueError", env |-> env]
    ELSE PutAll(items, i + 1, Putenv(env, items[i][1], items[i][2]))

\* truth value of an Optional[str]
Truthy(x) == x # None /\ Len(x) > 0

\* [ok, env, finds, parsed, env_vars, errs] of a call load_env_mcp(custom_path)
load_env_mcp(custom_path) ==
    LET searched == ~Truthy(custom_path)
        found == find_env_file(None)
        env_path == IF searched THEN found.path ELSE custom_path
        finds == IF searched THEN 1 ELSE 0
        errs0 == IF searched THEN found.errs ELSE <<>>
    IN  IF ~Truthy(env_path)
        THEN [ok |-> FALSE, env |-> environ, finds |-> finds, parsed |-> <<>>,
              env_vars |-> <<>>,
              errs |-> Append(errs0, [msg |-> "Error: No .env.mcp file found"])]
        ELSE
            LET parsed == parse_env_file(env_path)
                put == PutAll(parsed.result, 1, environ)
            IN  IF parsed.raised \in {"FileNotFoundError", "PermissionError"}
                THEN [ok |-> FALSE, env |-> environ, finds |-> finds,
                      parsed |-> <<env_path>>, env_vars |-> <<>>,
                      errs |-> Append(errs0, [msg |-> "Error loading .env.mcp file"])]
                ELSE IF parsed.raised # ""
                THEN [ok |-> FALSE, env |-> environ, finds |-> finds,
                      parsed |-> <<env_path>>, env_vars |-> <<>>,
                      errs |-> Append(errs0, [msg |-> "Unexpected error loading .env.mcp file"])]
                ELSE IF put.raised # ""
                THEN [ok |-> FALSE, env |-> put.env, finds |-> finds,
                      parsed |-> <<env_path>>, env_vars |-> parsed.result,
                      errs |-> Append(errs0 \o parsed.warnings,
                                      [msg |-> "Unexpected error loading .env.mcp file"])]
                ELSE [ok |-> TRUE, env |-> put.env, finds |-> finds,
                      parsed |-> <<env_path>>, env_vars |-> parsed.result,
                      errs |-> errs0 \o parsed.warnings]

----------------------------------------------------------------------------
(* executor.py: execute_command *)

ExitNotFound == 127
ExitPermission == 126
ExitInterrupted == 130
ExitGeneric == 1
ReturnCodes == 0..255

\* the backquote character, which a string of this language cannot hold
Backquote == "BACKQUOTE"
ShellChars == {"|", "&", ";", ">", "<", Backquote, "$"}

\* any(char in command for char in [...])
needs_shell(command) == \E char \in ShellChars : char \in Range(command)

\* " ".join(words)
RECURSIVE SpaceJoin(_)
SpaceJoin(words) ==
    IF words = <<>> THEN <<>>
    ELSE IF Len(words) = 1 THEN words[1]
    ELSE words[1] \o <<" ">> \o SpaceJoin(Tail(words))

\* mutant of Launch: the arguments are scanned for shell characters too
LaunchScanningArgs(command, args) ==
    IF \E i \in 1..Len(<<command>> \o args) : needs_shell((<<command>> \o args)[i])
    THEN [shell |-> TRUE, cmd_str |-> SpaceJoin(<<command>> \o args),
          cmd_list |-> <<>>, env |-> environ]
    ELSE [shell |-> FALSE, cmd_str |-> <<>>,
          cmd_list |-> <<command>> \o args, env |-> environ]

\* the call of subprocess.run chosen for command and args
Launch(command, args) ==
    IF needs_shell(command)
    THEN [shell |-> TRUE, cmd_str |-> SpaceJoin(<<command>> \o args),
          cmd_list |-> <<>>, env |-> environ]
    ELSE [shell |-> FALSE, cmd_str |-> <<>>,
          cmd_list |-> <<command>> \o args, env |-> environ]

\* What happens to the launch: the child exits with a code, is killed by a
\* signal, cannot be resolved, may not be executed, the operator interrupts
\* the wait, or the launch fails in another way.
KillSignals == {2, 9, 15}
Conditions ==
    {[what |-> "exits", n |-> n] : n \in ReturnCodes}
        \cup {[what |-> "killed", n |-> n] : n \in KillSignals}
        \cup {[what |-> w, n |-> 0] :
                 w \in {"not_found", "not_permitted", "interrupted", "failed"}}

\* subprocess.run: [raised, returncode].  Without a shell an unresolved or
\* forbidden command raises; a shell reports them as its exit status.
SubprocessRun(shell, cond) ==
    CASE cond.what = "exits" -> [raised |-> "", returncode |-> cond.n]
      [] cond.what = "killed" -> [raised |-> "", returncode |-> 0 - cond.n]
      [] cond.what = "not_found" ->
            IF shell THEN [raised |-> "", returncode |-> 127]
            ELSE [raised |-> "FileNotFoundError", returncode |-> 0]
      [] cond.what = "not_permitted" ->
            IF shell THEN [raised |-> "", returncode |-> 126]
            ELSE [raised |-> "PermissionError", returncode |-> 0]
      [] cond.what = "interrupted" -> [raised |-> "KeyboardInterrupt", returncode |-> 0]
      [] cond.what = "failed" -> [raised |-> "OSError", returncode |-> 0]

\* the classes an exception is an instance of
Bases(exc) ==
    CASE exc = "FileNotFoundError" -> {"FileNotFoundError", "OSError", "Exception", "BaseException"}
      [] exc = "PermissionError" -> {"PermissionError", "OSError", "Exception", "BaseException"}
      [] exc = "OSError" -> {"OSError", "Exception", "BaseException"}
      [] exc = "KeyboardInterrupt" -> {"KeyboardInterrupt", "BaseException"}
      [] exc = "SystemExit" -> {"SystemExit", "BaseException"}

\* mutant of ExceptClauses: the generic clause comes first
ExceptClausesGenericFirst ==
    << <<"Exception", ExitGeneric>>,
       <<"FileNotFoundError", ExitNotFound>>,
       <<"PermissionError", ExitPermission>>,
       <<"KeyboardInterrupt", ExitInterrupted>> >>

\* the except clauses of execute_command, in order
ExceptClauses ==
    << <<"FileNotFoundError", ExitNotFound>>,
       <<"PermissionError", ExitPermission>>,
       <<"KeyboardInterrupt", ExitInterrupted>>,
       <<"Exception", ExitGeneric>> >>

\* the code passed to sys.exit for what the try block raised: the first
\* clause that matches decides, SystemExit matches none and keeps its code
RECURSIVE Handle(_, _, _)
Handle(clauses, exc, code) ==
    IF clauses = <<>> THEN code
    ELSE IF Head(clauses)[1] \in Bases(exc) THEN Head(clauses)[2]
    ELSE Handle(Tail(clauses), exc, code)

\* the status the operating system sees after sys.exit(code)
ExitStatus(code) == code % Cardinality(ReturnCodes)

\* the message execute_command prints for what the try block raised
RECURSIVE Message(_, _)
Message(clauses, exc) ==
    IF clauses = <<>> THEN <<>>
    ELSE IF Head(clauses)[1] \in Bases(exc)
    THEN <<[msg |-> "Error", clause |-> Head(clauses)[1]]>>
    ELSE Message(Tail(clauses), exc)

execute_messages(command, args, cond) ==
    LET process == SubprocessRun(needs_shell(command), cond)
    IN  IF process.raised = "" THEN <<>> ELSE Message(ExceptClauses, process.raised)

\* mutant of execute_command: success or failure of the child, not its code
execute_command_flag(command, args, cond) ==
    LET process == SubprocessRun(needs_shell(command), cond)
    IN  IF process.raised = ""
        THEN (IF process.returncode = 0 THEN 0 ELSE 1)
        ELSE ExitStatus(Handle(ExceptClauses, process.raised, 0))

\* exit status of the process after execute_command under cond
execute_command(command, args, cond) ==
    LET process == SubprocessRun(needs_shell(command), cond)
    IN  IF process.raised = ""
        THEN ExitStatus(Handle(ExceptClauses, "SystemExit", process.returncode))
        ELSE ExitStatus(Handle(ExceptClauses, process.raised, 0))

----------------------------------------------------------------------------
(* cli.py: main *)

\* mutant of ExitLoadFailure: the code of a command that was not found
ExitLoadFailureAsNotFound == ExitNotFound
ExitLoadFailure == 1

\* mutant of AfterLoad: the result of the load is not tested
AfterLoadUntested(ok) == "execute"

\* if not load_env_mcp(...): sys.exit(1), else execute_command
AfterLoad(ok) == IF ok THEN "execute" ELSE "exit"

----------------------------------------------------------------------------
(* Inputs of the search *)

ChainDir(n) == Root \o [i \in 1..n |-> "a"]
ChainDirs == {ChainDir(n) : n \in 0..MaxDepth}
HomeDirs == {Root, ChainDir(1), <<"/", "h">>}
Dirs == ChainDirs \cup HomeDirs
SentinelPaths == {Join(d, SentinelName) : d \in Dirs}

FileStat(k, pr, op, c) == [kind |-> k, probe |-> pr, open |-> op, content |-> c]
FindFileStates ==
    {FileStat(k, "ok", "ok", <<>>) : k \in {"none", "file", "dir"}}
        \cup {FileStat(k, "error", "ok", <<>>) : k \in {"none", "file"}}
StartDirs == {None, <<"..">>} \cup Dirs

Unused ==
    /\ environ = <<>>
    /\ inherited = <<>>
    /\ parsed_args = None
    /\ find_called = 0
    /\ parsed_paths = <<>>
    /\ env_vars = <<>>
    /\ load_result = "unset"
    /\ launches = <<>>
    /\ condition = None
    /\ exit_code = NoExit
    /\ stderr = <<>>

InitFind ==
    /\ pc = "find"
    /\ fs \in [SentinelPaths -> FindFileStates]
    /\ start_dir \in StartDirs
    /\ cwd \in Dirs
    /\ IsAbsolute(start_dir) => cwd = Root
    /\ home \in HomeDirs
    /\ find_result = None
    /\ file_path = None
    /\ parse_result = None
    /\ Unused

\* a call find_env_file(start_dir)
FindEnvFile ==
    /\ pc = "find"
    /\ find_result' = find_env_file(start_dir).path
    /\ stderr' = find_env_file(start_dir).errs
    /\ pc' = "found"
    /\ UNCHANGED <<fs, cwd, home, environ, inherited, start_dir, file_path,
                   parse_result, parsed_args, find_called, parsed_paths,
                   env_vars, load_result, launches, condition, exit_code>>

NextFind == FindEnvFile
SpecFind == InitFind /\ [][NextFind]_vars

----------------------------------------------------------------------------
(* The process: main() from its first statement to its exit *)

Str1(a) == <<a>>
Str3(a, b, c) == <<a, b, c>>
WorkDir == ChainDir(1)
Discovered == Join(WorkDir, SentinelName)
Custom == Join(WorkDir, "c.env")
MainFiles == {Discovered, Custom}
MainContents ==
    { <<>>,
      Str3("K", "=", "v"),
      Str3("K", "=", "w") \o Str1("\n") \o Str3("J", "=", "'") \o Str1("w") \o Str1("'"),
      Str3("J", "=", "v") \o Str1("\n") \o Str3("K", "=", Nul) }
MainFileStates ==
    {FileStat("none", "ok", "ok", <<>>), FileStat("dir", "ok", "ok", <<>>),
     FileStat("file", "ok", "perm", <<>>), FileStat("file", "error", "ok", <<>>)}
        \cup {FileStat("file", "ok", "ok", c) : c \in MainContents}
InheritedEnvs ==
    {<<>>, (Str1("K") :> Str1("i")) @@ (Str1("H") :> Str1("i"))}
EnvFileArgs == {None, <<>>, Custom, <<"c.env">>}
MainCommands == {Str1("x"), <<"x", "|">>}
MainArgLists == {<<>>, <<Str1("$")>>}
ArgparseExits == {0, 2}

Init ==
    /\ pc = "parse_args"
    /\ fs \in [MainFiles -> MainFileStates]
    /\ cwd = WorkDir
    /\ home = <<"/", "h">>
    /\ environ \in InheritedEnvs
    /\ inherited = environ
    /\ start_dir = None
    /\ find_result = None
    /\ file_path = None
    /\ parse_result = None
    /\ parsed_args = None
    /\ find_called = 0
    /\ parsed_paths = <<>>
    /\ env_vars = <<>>
    /\ load_result = "unset"
    /\ launches = <<>>
    /\ condition = None
    /\ exit_code = NoExit
    /\ stderr = <<>>

\* parse_args(): a namespace, or the SystemExit of argparse passed on by main
ParseArgs ==
    /\ pc = "parse_args"
    /\ \/ /\ \E e \in EnvFileArgs, c \in MainCommands, a \in MainArgLists :
                parsed_args' = [env_file |-> e, command |-> c, args |-> a]
          /\ pc' = "load"
          /\ UNCHANGED exit_code
       \/ /\ \E code \in ArgparseExits : exit_code' = ExitStatus(code)
          /\ pc' = "exited"
          /\ UNCHANGED parsed_args
    /\ UNCHANGED <<fs, cwd, home, environ, inherited, start_dir, find_result,
                   file_path, parse_result, find_called, parsed_paths,
                   env_vars, load_result, launches, condition, stderr>>

\* load_env_mcp(parsed_args.env_file) and the test of its result in main
LoadEnvMcp ==
    /\ pc = "load"
    /\ LET r == load_env_mcp(parsed_args.env_file)
       IN  /\ environ' = r.env
           /\ find_called' = find_called + r.finds
           /\ parsed_paths' = parsed_paths \o r.parsed
           /\ env_vars' = r.env_vars
           /\ load_result' = IF r.ok THEN "True" ELSE "False"
           /\ stderr' = stderr \o r.errs
           /\ pc' = AfterLoad(r.ok)
    /\ UNCHANGED <<fs, cwd, home, inherited, start_dir, find_result, file_path,
                   parse_result, parsed_args, launches, condition, exit_code>>

\* sys.exit(1) after a failed load
ExitOnLoadFailure ==
    /\ pc = "exit"
    /\ exit_code' = ExitStatus(ExitLoadFailure)
    /\ pc' = "exited"
    /\ UNCHANGED <<fs, cwd, home, environ, inherited, start_dir, find_result,
                   file_path, parse_result, parsed_args, find_called,
                   parsed_paths, env_vars, load_result, launches, condition,
                   stderr>>

\* execute_command(parsed_args.command, parsed_args.args)
ExecuteCommand ==
    /\ pc = "execute"
    /\ \E cond \in Conditions :
          /\ condition' = cond
          /\ exit_code' = execute_command(parsed_args.command, parsed_args.args, cond)
          /\ stderr' = stderr \o execute_messages(parsed_args.command, parsed_args.args, cond)
    /\ launches' = Append(launches, Launch(parsed_args.command, parsed_args.args))
    /\ pc' = "exited"
    /\ UNCHANGED <<fs, cwd, home, environ, inherited, start_dir, find_result,
                   file_path, parse_result, parsed_args, find_called,
                   parsed_paths, env_vars, load_result>>

Next == ParseArgs \/ LoadEnvMcp \/ ExitOnLoadFailure \/ ExecuteCommand
Spec == Init /\ [][Next]_vars

----------------------------------------------------------------------------
(* execute_command on its own *)

CommandAlphabet == ShellChars \cup {"x"}
ExecCommands == SeqsUpTo(CommandAlphabet, MaxCommandLen) \ {<<>>}
ArgStrings == {Str1("y"), Str1("|")}
ExecArgLists == SeqsUpTo(ArgStrings, MaxArgs)

InitExec ==
    /\ pc = "execute"
    /\ parsed_args \in [env_file : {None}, command : ExecCommands, args : ExecArgLists]
    /\ fs = <<>>
    /\ cwd = Root
    /\ home = Root
    /\ environ = (Str1("H") :> Str1("i"))
    /\ inherited = environ
    /\ start_dir = None
    /\ find_result = None
    /\ file_path = None
    /\ parse_result = None
    /\ find_called = 0
    /\ parsed_paths = <<>>
    /\ env_vars = <<>>
    /\ load_result = "unset"
    /\ launches = <<>>
    /\ condition = None
    /\ exit_code = NoExit
    /\ stderr = <<>>

NextExec == ExecuteCommand
SpecExec == InitExec /\ [][NextExec]_vars

----------------------------------------------------------------------------
(* Properties of find_env_file (SpecFind) *)

ResolvedStart == Resolve(IF start_dir = None THEN cwd ELSE start_dir)
\* start, parent(start), ..., root
Chain == {SubSeq(ResolvedStart, 1, n) : n \in 1..Len(ResolvedStart)}
HasRegular(d) == Stat(Join(d, SentinelName)).kind = "file"
Probeable(d) == HasRegular(d) /\ Stat(Join(d, SentinelName)).probe = "ok"
Nearest(S) == CHOOSE d \in S : \A e \in S : Len(e) <= Len(d)

\* C6 as stated: when some directory of the chain holds a regular file
\* .env.mcp, the search returns the one of the directory nearest to the start.
C6_ClosestMatchAsStated ==
    (pc = "found" /\ \E d \in Chain : HasRegular(d))
        => find_result = Join(Nearest({d \in Chain : HasRegular(d)}), SentinelName)

\* C6 amended: when some directory of the chain holds a regular file .env.mcp
\* that is probed without error, the search returns the one of the nearest
\* such directory, never a more distant one and never the home fallback.
C6_ClosestMatch ==
    (pc = "found" /\ \E d \in Chain : Probeable(d))
        => find_result = Join(Nearest({d \in Chain : Probeable(d)}), SentinelName)

\* C6 witness: two levels of the chain hold the file, the start directory
\* does not, home (outside the chain) holds one too, the nearer level is
\* returned.
C6_Witness ==
    /\ pc = "found"
    /\ Cardinality({d \in Chain : Probeable(d)}) >= 2
    /\ ~HasRegular(ResolvedStart)
    /\ home \notin Chain /\ Probeable(home)
    /\ find_result = Join(Nearest({d \in Chain : Probeable(d)}), SentinelName)
    /\ find_result # Join(Root, SentinelName)

ChainEmpty == \A d \in Chain : Stat(Join(d, SentinelName)).kind = "none"

\* C7 as stated: with no .env.mcp on the chain, the search returns
\* ~/.env.mcp exactly when a regular file is there, and None otherwise.
C7_FallbackAsStated ==
    (pc = "found" /\ ChainEmpty)
        => /\ (find_result = Join(home, SentinelName)) <=> HasRegular(home)
           /\ ~HasRegular(home) => find_result = None

\* C7 amended: with no .env.mcp on the chain, the search returns ~/.env.mcp
\* exactly when a regular file is there and its probe raises no error, and
\* None otherwise.
C7_Fallback ==
    (pc = "found" /\ ChainEmpty)
        => /\ (find_result = Join(home, SentinelName)) <=> Probeable(home)
           /\ ~Probeable(home) => find_result = None

\* C7 witness: nothing on the chain, home outside it holds the file, the
\* home path is returned.
C7_Witness ==
    /\ pc = "found"
    /\ ChainEmpty
    /\ home \notin Chain
    /\ Probeable(home)
    /\ find_result = Join(home, SentinelName)

----------------------------------------------------------------------------
(* Inputs of the parser *)

ParseAlphabet == {"k", "=", "#", " ", "\n", "\"", "'"}
\* longer files: a quoted value that holds "=", single quotes, a mismatched
\* pair, an unquoted value with "=", quotes with blanks around and inside
QuoteSamples ==
    { <<"k", "=", "\"", "k", "=", "k", "\"">>,
      <<"k", "=", "'", "k", "=", "k", "'">>,
      <<"k", "=", "\"", "k", "=", "k", "'">>,
      <<"k", "=", "k", "=", "k", "=", "k">>,
      <<" ", "k", " ", "=", " ", "\"", " ", "k", " ", "\"", " ">>,
      <<"k", "=", "\"", "\"", "k", "\"", "\"">> }
\* longer files: a key assigned twice, with a malformed line, a comment or
\* an assignment of another key after or between the two
DuplicateSamples ==
    { <<"k", "=", "k", "\n", "k", "=">>,
      <<"k", "=", "\n", "k", "=", "k", "\n", "k">>,
      <<"k", "=", "k", "\n", "k", "=", "\n", "=", "k">>,
      <<"k", "=", "k", "\n", "#", "\n", "k", "=", "'">>,
      <<"'", "=", "k", "\n", "k", "=", "k", "\n", "'", "=">> }
Contents == SeqsUpTo(ParseAlphabet, MaxContentLen) \cup QuoteSamples \cup DuplicateSamples
ParsedFile == Join(Root, SentinelName)
ParseFileStates ==
    {FileStat("file", "ok", "ok", c) : c \in Contents}
        \cup {FileStat("file", "ok", op, <<>>) : op \in {"perm", "undecodable"}}
        \cup {FileStat(k, "ok", "ok", <<>>) : k \in {"none", "dir"}}

InitParse ==
    /\ pc = "parse"
    /\ fs \in [{ParsedFile} -> ParseFileStates]
    /\ file_path = ParsedFile
    /\ cwd = Root
    /\ home = Root
    /\ start_dir = None
    /\ find_result = None
    /\ parse_result = None
    /\ Unused

\* a call parse_env_file(file_path)
ParseEnvFile ==
    /\ pc = "parse"
    /\ parse_result' = parse_env_file(file_path)
    /\ stderr' = parse_env_file(file_path).warnings
    /\ pc' = "parsed"
    /\ UNCHANGED <<fs, cwd, home, environ, inherited, start_dir, find_result,
                   file_path, parsed_args, find_called, parsed_paths,
                   env_vars, load_result, launches, condition, exit_code>>

NextParse == ParseEnvFile
SpecParse == InitParse /\ [][NextParse]_vars

----------------------------------------------------------------------------
(* Properties of parse_env_file (SpecParse) *)

FileLines == SplitLines(Stat(file_path).content)
Readable == OpenError(file_path) = ""
Blank(l) == \A i \in 1..Len(l) : l[i] \in Whitespace
Comment(l) == \E i \in 1..Len(l) : l[i] = "#" /\ \A j \in 1..(i - 1) : l[j] \in Whitespace
NoEquals(l) == \A i \in 1..Len(l) : l[i] # "="
KeyMissing(l) == \E i \in 1..Len(l) : l[i] = "=" /\ \A j \in 1..(i - 1) : l[j] \in Whitespace
Skipped(l) == Blank(l) \/ Comment(l)
Malformed(l) == ~Skipped(l) /\ (NoEquals(l) \/ KeyMissing(l))
Valid(l) == ~Skipped(l) /\ ~NoEquals(l) /\ ~KeyMissing(l)
KeyOf(l) == Strip(Before(l, "="))

\* C10: parsing a readable file never fails; blank and comment lines give no
\* pair and no warning, every line without "=" or with an empty key gives
\* exactly one warning carrying its line number and no pair, and the mapping
\* holds a pair for the key of every other line.
C10_MalformedLineTolerance ==
    (pc = "parsed" /\ Readable)
        => /\ parse_result.raised = ""
           /\ Keys(parse_result.result)
                 = {KeyOf(FileLines[i]) : i \in {j \in 1..Len(FileLines) : Valid(FileLines[j])}}
           /\ {w.line_num : w \in Range(stderr)}
                 = {i \in 1..Len(FileLines) : Malformed(FileLines[i])}
           /\ Len(stderr) = Cardinality({i \in 1..Len(FileLines) : Malformed(FileLines[i])})
           /\ \A w \in Range(stderr) :
                 /\ w.line = FileLines[w.line_num]
                 /\ (w.msg = "Warning: Invalid line format") <=> NoEquals(w.line)
                 /\ (w.msg = "Warning: Empty key") <=> ~NoEquals(w.line)

\* C10 witness: a line without "=" precedes a valid line; the first is
\* warned about, the second is in the mapping.
C10_Witness ==
    /\ pc = "parsed"
    /\ Readable
    /\ \E i, j \in 1..Len(FileLines) :
          /\ i < j
          /\ Malformed(FileLines[i]) /\ NoEquals(FileLines[i])
          /\ Valid(FileLines[j])
          /\ KeyOf(FileLines[j]) \in Keys(parse_result.result)
    /\ Len(stderr) >= 1

\* the value the text of a valid line stands for
RawValue(l) == Strip(After(l, "="))
ExpectedValue(l) ==
    LET raw == RawValue(l)
    IN  IF Len(raw) >= 2 /\ raw[1] = raw[Len(raw)] /\ raw[1] \in {"\"", "'"}
        THEN [i \in 1..(Len(raw) - 2) |-> raw[i + 1]]
        ELSE raw
ValidLines == {i \in 1..Len(FileLines) : Valid(FileLines[i])}
LastFor(k) == CHOOSE i \in ValidLines :
                 /\ KeyOf(FileLines[i]) = k
                 /\ \A j \in ValidLines : KeyOf(FileLines[j]) = k => j <= i

\* C11: the key of a valid line is the trimmed text before its first "=", its
\* value the trimmed text after it, without its outer pair of quotes when
\* the value has at least two characters and begins and ends with the same
\* quote character, and unchanged in every other case.
C11_ValueDerivation ==
    (pc = "parsed" /\ Readable)
        => \A i \in ValidLines :
              (\A j \in ValidLines : j > i => KeyOf(FileLines[j]) # KeyOf(FileLines[i]))
                  => /\ KeyOf(FileLines[i]) \in Keys(parse_result.result)
                     /\ Get(parse_result.result, KeyOf(FileLines[i]))
                           = ExpectedValue(FileLines[i])

\* C11 witness: the file is k="k=k"; the mapping gives k the value k=k.
C11_Witness ==
    /\ pc = "parsed"
    /\ Stat(file_path).content = <<"k", "=", "\"", "k", "=", "k", "\"">>
    /\ parse_result.result = << <<Str1("k"), <<"k", "=", "k">> >> >>

\* C12: the keys of the mapping are unique, they are the keys of the valid
\* lines, and each key holds the value of the last valid line that assigns
\* it: what that line parsed on its own yields, whatever follows it.
C12_LastWriteWins ==
    (pc = "parsed" /\ Readable)
        => LET result == parse_result.result
           IN  /\ Cardinality(Keys(result)) = Len(result)
               /\ Keys(result) = {KeyOf(FileLines[i]) : i \in ValidLines}
               /\ \A k \in Keys(result) :
                     <<k, Get(result, k)>>
                        = ParseLines(<<FileLines[LastFor(k)]>>, 1, <<>>, <<>>).result[1]

\* C12 witness: a key is assigned twice with different values and a
\* malformed line follows; the mapping holds the second value.
C12_Witness ==
    /\ pc = "parsed"
    /\ Readable
    /\ Len(FileLines) = 3
    /\ Valid(FileLines[1]) /\ Valid(FileLines[2]) /\ Malformed(FileLines[3])
    /\ KeyOf(FileLines[1]) = KeyOf(FileLines[2])
    /\ RawValue(FileLines[1]) # RawValue(FileLines[2])
    /\ parse_result.result = << <<KeyOf(FileLines[2]), RawValue(FileLines[2])>> >>


----------------------------------------------------------------------------
(* Properties of main (Spec) *)

Launched == launches # <<>>

\* C1: after a failed load (no file found, or the file cannot be opened or
\* loaded) the process exits with code 1 and no child process is ever
\* launched.
C1_NoLaunchAfterFailedLoad ==
    load_result = "False"
        => /\ ~Launched
           /\ pc \in {"exit", "exited"}
           /\ pc = "exited" => exit_code = 1

\* C1 witness: the file handed to the parser could not be opened, the
\* process has exited with 1 and nothing was launched.
C1_Witness ==
    /\ pc = "exited"
    /\ load_result = "False"
    /\ parsed_paths # <<>>
    /\ OpenError(parsed_paths[1]) # ""
    /\ exit_code = 1
    /\ ~Launched

\* C4 as stated: the exit code of a pre-launch failure, 1, is never the exit
\* code of a run in which the command was launched.
C4_ExitCodeDistinguishesAsStated ==
    (pc = "exited" /\ Launched) => exit_code # 1

\* C4 amended: a failed load always exits with 1, so every exit code other
\* than 1 of a run that got past argument parsing (126, 127 and 130 among
\* them) is the code of a run in which the command was launched; code 1
\* itself is also the code of a launched run.
C4_ExitCodeDistinguishes ==
    (pc = "exited" /\ load_result # "unset" /\ exit_code # 1)
        => Launched /\ load_result = "True"

\* C4 witness: the command was launched and could not be resolved; the
\* process exits with 127.
C4_Witness ==
    /\ pc = "exited"
    /\ load_result = "True"
    /\ Launched
    /\ condition.what = "not_found"
    /\ exit_code = 127

\* C5: the environment handed to the child is the inherited environment
\* overlaid with the parsed mapping.
C5_OverrideMerge ==
    (load_result = "True" /\ Launched)
        => LET env == launches[1].env
           IN  /\ DOMAIN env = DOMAIN inherited \cup Keys(env_vars)
               /\ \A k \in Keys(env_vars) : env[k] = Get(env_vars, k)
               /\ \A k \in DOMAIN inherited \ Keys(env_vars) : env[k] = inherited[k]

\* C5 witness: the file sets a variable the inherited environment set to
\* something else and leaves another inherited one alone; the child sees
\* the file's value for the first and the inherited value for the second.
C5_Witness ==
    /\ Launched
    /\ load_result = "True"
    /\ \E k \in Keys(env_vars) \cap DOMAIN inherited :
          /\ inherited[k] # Get(env_vars, k)
          /\ launches[1].env[k] = Get(env_vars, k)
    /\ \E k \in DOMAIN inherited \ Keys(env_vars) : launches[1].env[k] = inherited[k]
    /\ \E k \in Keys(env_vars) : k \notin DOMAIN inherited

\* C8: with an explicit path, whatever string it is, find_env_file is never
\* called, that path is the one handed to the parser, and a path that cannot
\* be opened makes the load fail.
C8_ExplicitPathBypassesSearch ==
    (load_result # "unset" /\ parsed_args.env_file # None)
        => /\ find_called = 0
           /\ parsed_paths = <<parsed_args.env_file>>
           /\ OpenError(parsed_args.env_file) # "" => load_result = "False"

\* C13: whenever load_env_mcp returns False the process environment is
\* what it was before the call; none of the file's variables was written.
C13_FailedLoadLeavesEnvironment ==
    load_result = "False" => environ = inherited

----------------------------------------------------------------------------
(* Properties of execute_command (SpecExec) *)

\* C2: when the child terminates normally with code N, the process exits
\* with N, with and without a shell.
C2_ExitTransparency ==
    (pc = "exited" /\ condition.what = "exits") => exit_code = condition.n

\* C2 witness: a command run through the shell exits with 42 and so does
\* the process.
C2_Witness ==
    /\ pc = "exited"
    /\ launches[1].shell
    /\ condition = [what |-> "exits", n |-> 42]
    /\ exit_code = 42

\* C3: not found gives 127, permission denied 126, an interrupt 130, any
\* other launch failure 1, and none of the four gives the code of another.
C3_LaunchFailureCodes ==
    pc = "exited"
        => /\ condition.what = "not_found" => exit_code = 127
           /\ condition.what = "not_permitted" => exit_code = 126
           /\ condition.what = "interrupted" => exit_code = 130
           /\ condition.what = "failed" => exit_code = 1

\* C3 witness: a command launched without a shell may not be executed; the
\* process exits with 126.
C3_Witness ==
    /\ pc = "exited"
    /\ ~launches[1].shell
    /\ condition.what = "not_permitted"
    /\ exit_code = 126

RECURSIVE Spaced(_)
Spaced(words) ==
    IF words = <<>> THEN <<>> ELSE <<" ">> \o Head(words) \o Spaced(Tail(words))

\* C9: the command line goes to a shell, joined with single spaces, exactly
\* when the command token holds one of | & ; > < ` $; otherwise command and
\* arguments are launched as an argument vector; the arguments have no part
\* in the choice.
C9_VariantChoice ==
    pc = "exited"
        => LET command == parsed_args.command
               args == parsed_args.args
               run == launches[1]
           IN  /\ run.shell <=> \E i \in 1..Len(command) :
                                   command[i] \in {"|", "&", ";", ">", "<", Backquote, "$"}
               /\ run.shell => run.cmd_str = command \o Spaced(args)
               /\ ~run.shell => run.cmd_list = <<command>> \o args

\* C9 witness: the command holds no shell character, an argument does, and
\* the launch is direct.
C9_Witness ==
    /\ pc = "exited"
    /\ parsed_args.command = <<"x", "x">>
    /\ parsed_args.args = <<Str1("|")>>
    /\ ~launches[1].shell
    /\ launches[1].cmd_list = << <<"x", "x">>, Str1("|") >>

====
